---- MODULE Spec2Model ----
(***************************************************************************)
(* Model of the panel-feedback extension: the request broker of            *)
(* src/src/mcpServer.ts (MCPServer), the answer channel of                 *)
(* src/src/FeedbackPanelProvider.ts (FeedbackPanelProvider) and the        *)
(* activation sequence of the extension entry point (activate/deactivate). *)
(*                                                                         *)
(* One window process is one value of Windows.  Every JavaScript handler   *)
(* runs to its first suspension point atomically (single event loop), so   *)
(* one handler is one action.                                              *)
(***************************************************************************)
EXTENDS Integers, Sequences, FiniteSets, TLC

(***************************************************************************)
(* Bounds of the model.                                                    *)
(***************************************************************************)
MaxSubmits == 2
MaxBodies == 1
MaxTicks == 1
MaxImages == 2

Windows == {1, 2}
\* the process ids and the ports the operating system hands to window w
PidsOf(w) == {100 + w}
PortsOf(w) == {40000 + w}

(***************************************************************************)
(* Optional values: a JavaScript value that may be undefined is a sequence *)
(* of length at most one.                                                  *)
(***************************************************************************)
None == << >>
Some(x) == << x >>
IsSome(m) == m # None
Get(m) == m[1]

(***************************************************************************)
(* Strings and JSON.  A string is one of                                   *)
(*   plain   - characters that are not a JSON document,                    *)
(*   dataurl - "data:<mime>;base64,<payload>" (not a JSON document),       *)
(*   json    - the text JSON.stringify produces for the value val.         *)
(* JSON.parse succeeds exactly on the json kind.                           *)
(***************************************************************************)
Plain(c) == [kind |-> "plain", chars |-> c]
DataUrl(m, p) == [kind |-> "dataurl", mime |-> m, payload |-> p]
JsonText(v) == [kind |-> "json", val |-> v]
EmptyStr == Plain("")

JNull == [t |-> "null"]
JNum(n) == [t |-> "number", n |-> n]
JStr(s) == [t |-> "string", s |-> s]
JArr(items) == [t |-> "array", items |-> items]
JObj(text, images) == [t |-> "object", text |-> text, images |-> images]

JSONstringify(v) == JsonText(v)
CanParse(s) == s.kind = "json"
JSONparse(s) == s.val

\* JavaScript truthiness of a JSON value
Truthy(v) ==
    CASE v.t = "null" -> FALSE
      [] v.t = "number" -> v.n # 0
      [] v.t = "string" -> v.s # EmptyStr
      [] OTHER -> TRUE

\* parsed.<field> for a parsed JSON value other than null: undefined unless
\* the value is an object that has the field
Prop(v, field) ==
    IF v.t = "object"
    THEN (IF field = "text" THEN v.text ELSE v.images)
    ELSE None

TextPart(v) == [type |-> "text", text |-> v]
ImagePart(m, p) == [type |-> "image", data |-> p, mimeType |-> m]

\* imageDataUrl.match(/^data:([^;]+);base64,(.+)$/) on a string
MatchesDataUrl(s) == s.kind = "dataurl"

\* the for-loop of parseResponse over parsed.images, from entry i on;
\* an entry that is no string has no .match: the TypeError leaves the loop
\* and the catch block appends the whole feedback as a text part
RECURSIVE ImageLoop(_, _, _, _)
ImageLoop(items, i, content, feedback) ==
    IF i > Len(items) THEN content
    ELSE IF items[i].t # "string"
         THEN Append(content, TextPart(JStr(feedback)))
         ELSE IF MatchesDataUrl(items[i].s)
              THEN ImageLoop(items, i + 1,
                        Append(content, ImagePart(items[i].s.mime, items[i].s.payload)),
                        feedback)
              ELSE ImageLoop(items, i + 1, content, feedback)

ParseBody(feedback) ==
    IF ~CanParse(feedback) THEN << TextPart(JStr(feedback)) >>
    ELSE LET parsed == JSONparse(feedback) IN
         IF parsed.t = "null" THEN << TextPart(JStr(feedback)) >>
         ELSE LET text == Prop(parsed, "text")
                  images == Prop(parsed, "images")
                  c1 == IF IsSome(text) /\ Truthy(Get(text))
                        THEN << TextPart(Get(text)) >> ELSE << >>
              IN IF IsSome(images) /\ Truthy(Get(images)) /\ Get(images).t = "array"
                 THEN ImageLoop(Get(images).items, 1, c1, feedback)
                 ELSE c1

\* (variant: an empty content list is returned as it is)
parseResponseNoSynth(feedback) == ParseBody(feedback)

\* MCPServer.parseResponse
parseResponse(feedback) ==
    LET content == ParseBody(feedback) IN
    IF Len(content) = 0 THEN << TextPart(JStr(EmptyStr)) >> ELSE content


(***************************************************************************)
(* Time.  Date.now() is the variable now, in milliseconds.                 *)
(***************************************************************************)
HOUR == 60 * 60 * 1000
SEVEN_DAYS == 7 * 24 * 60 * 60 * 1000
TickSteps == {HOUR, SEVEN_DAYS}

(***************************************************************************)
(* Inputs of the handlers.                                                 *)
(***************************************************************************)
\* requestId of a /submit or /poll body: a string, the empty string, or missing
RequestIds == {Some("r1"), Some("r2")}
BadIds == {Some(""), None}
AllIds == RequestIds \cup BadIds

Question == "Pick one"
Options == << "A", "B" >>
Obj(message, options, arguments) ==
    [message |-> message, predefined_options |-> options, arguments |-> arguments]
\* params of a /submit body
WireParams == Some(Obj(Some(Question), Some(Options), None))
ToolParams == Some(Obj(None, None, Some([message |-> Some(Question),
                                         predefined_options |-> Some(Options)])))
EmptyParams == Some(Obj(None, None, None))
ParamsSet == {None, WireParams, ToolParams, EmptyParams}

\* what the human can send from the panel: _handleSubmit(text, images)
Png == DataUrl("image/png", "QUJD")
AnswerTexts == {Plain("A")}
AnswerImages == {<< >>, << Png >>}

\* the answer strings the parser is given: text that is no JSON document, and
\* the JSON documents a human can type or the panel can build
SeqsUpTo(S, n) == UNION {[1..k -> S] : k \in 0..n}
ImageEntries == {JStr(Png), JStr(Plain("not-a-data-url")), JNum(1), JNull}
EnvelopeTexts == {None, Some(JNull), Some(JStr(EmptyStr)), Some(JStr(Plain("hi")))}
EnvelopeImages ==
    {None, Some(JNull), Some(JStr(Png))}
        \cup {Some(JArr(items)) : items \in SeqsUpTo(ImageEntries, MaxImages)}
Envelopes == {JObj(text, images) : text \in EnvelopeTexts, images \in EnvelopeImages}
JsonValues == {JNull, JNum(0), JNum(42), JStr(Plain("A")), JArr(<< >>)} \cup Envelopes
Feedbacks == {Plain("A"), EmptyStr, Png} \cup {JsonText(v) : v \in JsonValues}

(***************************************************************************)
(* State.                                                                  *)
(***************************************************************************)
VARIABLES
    now,              \* Date.now()
    ticks,            \* number of clock steps taken (bounded)
    alive,            \* alive[w]: the window process runs with the extension active
    pid,              \* pid[w]: process.pid of the running process of window w
    context,          \* context[w]: MCPServer.context is set
    server,           \* server[w]: "none" | "starting" | "listening" | "failed"
    port,             \* port[w]: MCPServer.port
    pendingRequests,  \* pendingRequests[w]: the Map, in insertion order, key -> object
    heap,             \* heap[w]: the PendingRequest objects of the process, by identity
    globalState,      \* value of the key 'pendingRequests' in the extension's globalState
    view,             \* view[w]: FeedbackPanelProvider._view: "none" | "ready" | "disposed"
    pendingResolve,   \* pendingResolve[w]: the showMessage call whose resolver is installed
    focusing,         \* focusing[w]: showMessage calls suspended before installing a resolver
    current,          \* current[w]: _currentMessage, _currentOptions, _currentRequestId
    registry,         \* ports.json: the windows list
    pidFiles,         \* the port-<pid>.json files
    disk,             \* ports.json as a file: its condition, and whether it can be written
    fileIO,           \* fileIO[w]: the registry operation of w between its read and its write
    last,             \* the last operation, its input and its reply
    nextUid,          \* identity given to the next PendingRequest object
    everSubmitted,    \* everSubmitted[w]: ids submitted to the broker of window w
    collected,        \* collected[w]: ids whose terminal result a poll has returned
    deliveries        \* deliveries[u]: polls that returned the result of request u

vars == << now, ticks, alive, pid, context, server, port, pendingRequests, heap,
           globalState, view, pendingResolve, focusing, current, registry, pidFiles,
           disk, fileIO, last, nextUid, everSubmitted, collected, deliveries >>

(***************************************************************************)
(* The Map<string, PendingRequest>: a sequence of [key, uid] in insertion  *)
(* order; uid names the object in the heap.                                *)
(***************************************************************************)
MapHas(m, k) == \E i \in 1..Len(m) : m[i].key = k
MapGet(m, k) == (CHOOSE i \in 1..Len(m) : m[i].key = k)
MapUid(m, k) == m[MapGet(m, k)].uid
MapSet(m, k, u) ==
    IF MapHas(m, k)
    THEN [m EXCEPT ![MapGet(m, k)] = [key |-> k, uid |-> u]]
    ELSE Append(m, [key |-> k, uid |-> u])
MapDelete(m, k) == SelectSeq(m, LAMBDA e : e.key # k)
MapUids(m) == {m[i].uid : i \in 1..Len(m)}
MapKeys(m) == {m[i].key : i \in 1..Len(m)}

\* Array.from(this.pendingRequests.values()), serialised by globalState.update:
\* a field that is undefined is left out and reads back as undefined
\* (uid, owner and via are not fields of the program: uid names the request,
\* owner the window that accepted it, via how the object came into the heap)
Serialise(req) ==
    [id |-> req.id, params |-> req.params, status |-> req.status, result |-> req.result,
     error |-> req.error, createdAt |-> req.createdAt, uid |-> req.uid, owner |-> req.owner,
     via |-> "stored"]
Snapshot(m, h) == [i \in 1..Len(m) |-> Serialise(h[m[i].uid])]

NewRequest(requestId, params, t, u, w) ==
    [id |-> requestId, params |-> params, status |-> "pending", result |-> None,
     error |-> None, createdAt |-> t, uid |-> u, owner |-> w, via |-> "submit"]

(***************************************************************************)
(* The state one handler works on: st.map, st.heap (the broker), st.view,  *)
(* st.resolve, st.focusing, st.current (the provider), st.gs (globalState),*)
(* st.ctx (context set) and st.calls (the showMessage calls it made).      *)
(***************************************************************************)
\* MCPServer.persistRequests
persistRequests(st) ==
    IF ~st.ctx THEN st ELSE [st EXCEPT !.gs = Snapshot(st.map, st.heap)]

\* catch block of processRequest
FailRequest(st, u, msg) ==
    persistRequests([st EXCEPT !.heap[u].status = "error", !.heap[u].error = Some(msg)])

\* continuation of processRequest after the awaited showMessage has resolved
CompleteRequest(st, u, feedback) ==
    persistRequests([st EXCEPT !.heap[u].status = "completed",
                               !.heap[u].result = Some([content |-> parseResponse(feedback)])])

TypeErrorMsg == "Cannot read properties of undefined (reading 'arguments')"
DisposedMsg == "Webview is disposed"

\* message || ''
OrEmpty(m) == IF IsSome(m) THEN Get(m) ELSE ""
\* options || []
OrNoOptions(o) == IF IsSome(o) THEN Get(o) ELSE << >>

\* the part of showMessage after the view has been looked for: post the
\* message to a live view and install the resolver; a disposed view throws
InstallResolver(st, call) ==
    IF st.view = "disposed"
    THEN [st |-> st, rejected |-> TRUE]
    ELSE [st |-> [st EXCEPT !.resolve = Some(call)], rejected |-> FALSE]

\* FeedbackPanelProvider.showMessage up to its first suspension
showMessage(st, message, options, requestId, call) ==
    LET st1 == [st EXCEPT !.current = [message |-> message,
                                       options |-> OrNoOptions(options),
                                       requestId |-> requestId],
                          !.calls = Append(@, [message |-> message, options |-> options,
                                               requestId |-> requestId])]
    IN IF st.view = "none"
       THEN [st |-> [st1 EXCEPT !.focusing = @ \cup {call}], rejected |-> FALSE]
       ELSE InstallResolver(st1, call)

\* (variant: message and predefined_options read from params itself)
ArgumentsTopLevel(params) ==
    [message |-> params.message, predefined_options |-> params.predefined_options]

\* the arguments processRequest reads: request.params.arguments || {}
Arguments(params) ==
    IF IsSome(params.arguments) THEN Get(params.arguments)
    ELSE [message |-> None, predefined_options |-> None]

\* (variant: the request is completed before handleSubmit replies)
processRequestBlocking(st, u) ==
    CompleteRequest(st, u, Plain("A"))

\* (variant: no catch block, a failed display leaves the request as it is)
processRequestUncaught(st, u) ==
    LET request == st.heap[u] IN
    IF ~IsSome(request.params)
    THEN st
    ELSE LET a == Arguments(Get(request.params))
         IN showMessage(st, OrEmpty(a.message), a.predefined_options, request.id, u).st

\* MCPServer.processRequest up to its first suspension
processRequest(st, u) ==
    LET request == st.heap[u] IN
    IF ~IsSome(request.params)
    THEN FailRequest(st, u, TypeErrorMsg)
    ELSE LET a == Arguments(Get(request.params))
             r == showMessage(st, OrEmpty(a.message), a.predefined_options, request.id, u)
         IN IF r.rejected THEN FailRequest(r.st, u, DisposedMsg) ELSE r.st

\* objects nothing refers to any more are gone
Reachable(st) ==
    MapUids(st.map) \cup st.focusing
        \cup (IF IsSome(st.resolve) THEN {Get(st.resolve)} ELSE {})
Collect(st) == [st EXCEPT !.heap = [u \in Reachable(st) \cap DOMAIN st.heap |-> st.heap[u]]]


(***************************************************************************)
(* The registry file and the discovery files.                              *)
(***************************************************************************)
\* ports.json is a file: registry is its windows list while the file is "ok";
\* otherwise the file is missing, cannot be read, is no JSON document, or is
\* a JSON document without a windows list ({} for one)
FileStates == {"ok", "missing", "unreadable", "notjson", "nolist"}
Healthy == [file |-> "ok", writable |-> TRUE]

\* MCPServer.readRegistry: the value it returns; a missing file and a caught
\* exception give { windows: [] }, a parsed document is returned as it is
readRegistry(d, reg) ==
    CASE d.file = "ok" -> [list |-> TRUE, windows |-> reg]
      [] d.file = "nolist" -> [list |-> FALSE, windows |-> << >>]
      [] OTHER -> [list |-> TRUE, windows |-> << >>]

\* MCPServer.writeRegistry: the file after the call; a failed write is caught
writeRegistry(d, reg, windows) ==
    IF d.writable THEN [disk |-> [d EXCEPT !.file = "ok"], windows |-> windows]
    ELSE [disk |-> d, windows |-> reg]

\* registry.windows.filter / .find on a value without a windows list
ListTypeError == "Cannot read properties of undefined"
\* an exception leaves the handler
Raised(msg) == Some([raised |-> msg])

\* process.kill(pid, 0) succeeds
IsRunning(p) == \E w \in Windows : alive[w] /\ pid[w] = p

\* (variant: entries of dead processes are kept)
registerWindowKeepDead(reg, w, p) ==
    Append(SelectSeq(reg, LAMBDA e : e.pid # pid[w]),
           [port |-> p, pid |-> pid[w], lastActive |-> now])

\* (variant: an earlier entry of the process itself is kept)
registerWindowKeepOwn(reg, w, p) ==
    Append(SelectSeq(reg, LAMBDA e : IsRunning(e.pid)),
           [port |-> p, pid |-> pid[w], lastActive |-> now])

\* (variant: the list is read again at the write, as under a lock)
registerWindowLocked(reg, w, p) ==
    Append(SelectSeq(registry, LAMBDA e : IsRunning(e.pid) /\ e.pid # pid[w]),
           [port |-> p, pid |-> pid[w], lastActive |-> now])

\* MCPServer.registerWindow: the list it writes
registerWindow(reg, w, p) ==
    LET live == SelectSeq(reg, LAMBDA e : IsRunning(e.pid))
        others == SelectSeq(live, LAMBDA e : e.pid # pid[w])
    IN Append(others, [port |-> p, pid |-> pid[w], lastActive |-> now])

\* registry.windows.find(...) of updateLastActive finds an entry
HasEntry(reg, w) == \E i \in 1..Len(reg) : reg[i].port = port[w] /\ reg[i].pid = pid[w]

\* MCPServer.updateLastActive: find() takes the first matching entry
updateLastActive(reg, w) ==
    LET hits == {i \in 1..Len(reg) : reg[i].port = port[w] /\ reg[i].pid = pid[w]} IN
    IF hits = {} THEN reg
    ELSE LET first == CHOOSE i \in hits : \A j \in hits : i <= j
         IN [reg EXCEPT ![first].lastActive = now]

\* (variant: an entry that is not found is written again)
touchRegistryUpsert(d, reg, windows, w) ==
    IF HasEntry(windows, w) THEN writeRegistry(d, reg, updateLastActive(windows, w))
    ELSE writeRegistry(d, reg, Append(windows, [port |-> port[w], pid |-> pid[w],
                                                lastActive |-> now]))

\* updateLastActive from its find on: the file after the call
touchRegistry(d, reg, windows, w) ==
    IF HasEntry(windows, w) THEN writeRegistry(d, reg, updateLastActive(windows, w))
    ELSE [disk |-> d, windows |-> reg]

\* MCPServer.unregisterWindow: the list it writes
unregisterWindow(reg, w) ==
    SelectSeq(reg, LAMBDA e : ~(e.port = port[w] /\ e.pid = pid[w]))

\* (variant: the discovery file is not written)
writePidRegistrySkipped(files, w, p) == files

\* MCPServer.writePidRegistry
writePidRegistry(files, w, p) ==
    [q \in DOMAIN files \cup {pid[w]} |-> IF q = pid[w] THEN p ELSE files[q]]

\* (variant: the discovery file is left in place)
deletePidRegistryKeep(files, w) == files

\* MCPServer.deletePidRegistry
deletePidRegistry(files, w) ==
    [q \in DOMAIN files \ {pid[w]} |-> files[q]]

(***************************************************************************)
(* Packing the state of window w for a handler and writing it back.        *)
(***************************************************************************)
NoCurrent == [message |-> "", options |-> << >>, requestId |-> None]

St(w) ==
    [map |-> pendingRequests[w], heap |-> heap[w], view |-> view[w],
     resolve |-> pendingResolve[w], focusing |-> focusing[w], current |-> current[w],
     gs |-> globalState, ctx |-> context[w], calls |-> << >>]

Commit(w, st0) ==
    LET st == Collect(st0) IN
    /\ pendingRequests' = [pendingRequests EXCEPT ![w] = st.map]
    /\ heap' = [heap EXCEPT ![w] = st.heap]
    /\ pendingResolve' = [pendingResolve EXCEPT ![w] = st.resolve]
    /\ focusing' = [focusing EXCEPT ![w] = st.focusing]
    /\ current' = [current EXCEPT ![w] = st.current]
    /\ globalState' = st.gs

NoReply == None
Reply(status, requestId, data, error) ==
    Some([status |-> status, requestId |-> requestId, data |-> data, error |-> error])
\* http is the status code of the response the step wrote, 0 when it wrote none
Op(name, w, requestId, params, reply, calls) ==
    [op |-> name, w |-> w, id |-> requestId, params |-> params, reply |-> reply,
     calls |-> calls, http |-> 0]
\* the http callback of start(): the value a handler returned is written with
\* status 200; a suspended handler has written nothing yet
Responded(op) == [op EXCEPT !.http = IF IsSome(op.reply) THEN 200 ELSE 0]
\* res.writeHead(code) with the body in op.reply
Sent(op, code) == [op EXCEPT !.http = code]

(***************************************************************************)
(* Persistence and recovery.                                               *)
(***************************************************************************)
\* (variant: the retention window includes its end)
RestorableInclusive(req, t) == req.status = "pending" /\ (t - req.createdAt) <= SEVEN_DAYS

\* (variant: the status of the stored entry is not looked at)
RestorableAnyStatus(req, t) == (t - req.createdAt) < SEVEN_DAYS

\* the test of restorePendingRequests on one stored entry
Restorable(req, t) == req.status = "pending" /\ (t - req.createdAt) < SEVEN_DAYS

\* JSON.parse of a stored entry: a new object of this process
Revive(req) == [req EXCEPT !.via = "restore"]

PutObject(h, req) == [u \in DOMAIN h \cup {req.uid} |-> IF u = req.uid THEN req ELSE h[u]]

\* MCPServer.restorePendingRequests: the loop over the stored array
RECURSIVE restoreLoop(_, _, _)
restoreLoop(stored, i, st) ==
    IF i > Len(stored) THEN st
    ELSE LET req == stored[i] IN
         IF Restorable(req, now)
         THEN restoreLoop(stored, i + 1,
                  processRequest([st EXCEPT !.map = MapSet(@, req.id, req.uid),
                                            !.heap = PutObject(@, Revive(req))],
                                 req.uid))
         ELSE restoreLoop(stored, i + 1, st)

restorePendingRequests(st) ==
    IF ~st.ctx THEN st ELSE restoreLoop(st.gs, 1, st)

(***************************************************************************)
(* The legacy path: a POST to any other url is handled by handleRequest.   *)
(* A tools/call in flight is an object of the process that is in no map:   *)
(* the suspended handleRequest call, with the JSON-RPC id it will answer.  *)
(***************************************************************************)
LegacyResult(id, result) ==
    Some([jsonrpc |-> "2.0", id |-> id, result |-> Some(result), error |-> None])
LegacyError(id, code, message) ==
    Some([jsonrpc |-> "2.0", id |-> id, result |-> None,
          error |-> Some([code |-> code, message |-> message])])

\* the catch block of the http callback: the envelope sent with status 400
ParseError == LegacyError(None, -32700, "Parse error")

LegacyCall(id, params, t, u, w) == [NewRequest(id, params, t, u, w) EXCEPT !.via = "legacy"]
IsLegacy(obj) == obj.via = "legacy"

\* the loop of the tools/call case over parsed.images, from entry i on
RECURSIVE LegacyImageLoop(_, _, _, _)
LegacyImageLoop(items, i, content, feedback) ==
    IF i > Len(items) THEN content
    ELSE IF items[i].t # "string"
         THEN Append(content, TextPart(JStr(feedback)))
         ELSE IF MatchesDataUrl(items[i].s)
              THEN LegacyImageLoop(items, i + 1,
                        Append(content, ImagePart(items[i].s.mime, items[i].s.payload)),
                        feedback)
              ELSE LegacyImageLoop(items, i + 1, content, feedback)

\* (variant: the answer string is returned as one text part, unparsed)
legacyContentVerbatim(feedback) == << TextPart(JStr(feedback)) >>

\* the content list the tools/call case builds from the answer string
legacyContent(feedback) ==
    LET content ==
          IF ~CanParse(feedback) THEN << TextPart(JStr(feedback)) >>
          ELSE LET parsed == JSONparse(feedback) IN
               IF parsed.t = "null" THEN << TextPart(JStr(feedback)) >>
               ELSE LET text == Prop(parsed, "text")
                        images == Prop(parsed, "images")
                        c1 == IF IsSome(text) /\ Truthy(Get(text))
                              THEN << TextPart(Get(text)) >> ELSE << >>
                    IN IF IsSome(images) /\ Truthy(Get(images)) /\ Get(images).t = "array"
                       THEN LegacyImageLoop(Get(images).items, 1, c1, feedback)
                       ELSE c1
    IN IF Len(content) = 0 THEN << TextPart(JStr(EmptyStr)) >> ELSE content

\* the JSON-RPC envelopes of the legacy path: method and params
PanelTool == Some([name |-> Some("panel_feedback"),
                   arguments |-> Some([message |-> Some(Question),
                                       predefined_options |-> Some(Options)])])
OtherTool == Some([name |-> Some("other_tool"), arguments |-> None])
LegacyBodies ==
    {[method |-> "initialize", params |-> None], [method |-> "tools/list", params |-> None],
     [method |-> "ping", params |-> None], [method |-> "tools/call", params |-> None],
     [method |-> "tools/call", params |-> OtherTool],
     [method |-> "tools/call", params |-> PanelTool]}
RpcIds == {Some(7)}
\* envelopes whose id is a string that can also name a /submit request
OverlapIds == RequestIds

\* params?.name === 'panel_feedback'
CallsPanel(method, params) ==
    method = "tools/call" /\ IsSome(params) /\ Get(params).name = Some("panel_feedback")

\* MCPServer.handleRequest: the reply of a request that does not wait
legacyReply(id, method, params) ==
    CASE method = "tools/list" -> LegacyResult(id, "tools")
      [] method = "initialize" -> LegacyResult(id, "serverInfo")
      [] method = "tools/call" -> LegacyError(id, -32601, "Tool not found")
      [] OTHER -> LegacyError(id, -32601, "Method not found")

\* (variant: the tools/call is entered in the map under its id, as a submit is)
handleRequestTracked(st, w, id, method, params) ==
    IF ~CallsPanel(method, params) THEN [st |-> st, rejected |-> FALSE]
    ELSE LET a == Arguments(Get(params))
             st1 == [st EXCEPT !.map = MapSet(@, id, nextUid),
                               !.heap = PutObject(@, LegacyCall(id, params, now, nextUid, w))]
         IN showMessage(st1, OrEmpty(a.message), a.predefined_options, None, nextUid)

\* MCPServer.handleRequest up to its first suspension
handleRequest(st, w, id, method, params) ==
    IF ~CallsPanel(method, params) THEN [st |-> st, rejected |-> FALSE]
    ELSE LET a == Arguments(Get(params))
             st1 == [st EXCEPT !.heap = PutObject(@, LegacyCall(id, params, now, nextUid, w))]
         IN showMessage(st1, OrEmpty(a.message), a.predefined_options, None, nextUid)

\* the state and the reply of a legacy request; the registry is left alone
LegacyHandled(w, id, method, params, limit) ==
    /\ server[w] = "listening"
    /\ CallsPanel(method, params) => nextUid <= limit
    /\ LET r == handleRequest(St(w), w, id, method, params)
       IN /\ Commit(w, r.st)
          /\ last' = Responded(Op("legacy", w, id, params,
                        IF ~CallsPanel(method, params) THEN legacyReply(id, method, params)
                        ELSE IF r.rejected THEN LegacyError(id, -32000, DisposedMsg)
                        ELSE NoReply,
                        r.st.calls))
    /\ nextUid' = IF CallsPanel(method, params) THEN nextUid + 1 ELSE nextUid
    /\ UNCHANGED << disk, now, ticks, alive, pid, context, server, port, view, pidFiles, fileIO,
                    everSubmitted, collected, deliveries >>

\* (variant: the legacy path records activity like /submit does)
LegacyRequestTouching(w, id, method, params, limit) ==
    /\ registry' = updateLastActive(registry, w)
    /\ LegacyHandled(w, id, method, params, limit)

\* a POST to a url other than /submit and /poll
LegacyRequest(w, id, method, params, limit) ==
    /\ registry' = registry
    /\ LegacyHandled(w, id, method, params, limit)

(***************************************************************************)
(* Actions.                                                                *)
(***************************************************************************)
\* activate(): a new provider and a new MCPServer, setContext (which
\* restores), then start(), which begins to listen
Activate(w, p) ==
    /\ ~alive[w]
    /\ ~IsRunning(p)
    /\ LET fresh == [map |-> << >>, heap |-> << >>, view |-> "none", resolve |-> None,
                     focusing |-> {}, current |-> NoCurrent, gs |-> globalState,
                     ctx |-> TRUE, calls |-> << >>]
           st == restorePendingRequests(fresh)
       IN /\ Commit(w, st)
          /\ last' = Op("activate", w, None, None, NoReply, st.calls)
    /\ alive' = [alive EXCEPT ![w] = TRUE]
    /\ pid' = [pid EXCEPT ![w] = p]
    /\ context' = [context EXCEPT ![w] = TRUE]
    /\ view' = [view EXCEPT ![w] = "none"]
    /\ server' = [server EXCEPT ![w] = "starting"]
    /\ UNCHANGED << disk, fileIO, now, ticks, port, registry, pidFiles, nextUid, everSubmitted,
                    collected, deliveries >>

\* tryListen: the 'listening' event; the OS assigned port p.  registerWindow
\* on a file without a windows list throws out of the event callback, after
\* the port was bound and before anything was written
Listen(w, p) ==
    /\ alive[w] /\ server[w] = "starting"
    /\ \A v \in Windows : ~(server[v] = "listening" /\ port[v] = p)
    /\ server' = [server EXCEPT ![w] = "listening"]
    /\ port' = [port EXCEPT ![w] = p]
    /\ LET read == readRegistry(disk, registry) IN
       IF read.list
       THEN LET out == writeRegistry(disk, registry, registerWindow(read.windows, w, p)) IN
            /\ registry' = out.windows
            /\ disk' = out.disk
            /\ pidFiles' = writePidRegistry(pidFiles, w, p)
            /\ last' = Op("listen", w, None, None, NoReply, << >>)
       ELSE /\ UNCHANGED << registry, disk, pidFiles >>
            /\ last' = Op("listen", w, None, None, Raised(ListTypeError), << >>)
    /\ UNCHANGED << fileIO, now, ticks, alive, pid, context, pendingRequests, heap, globalState,
                    view, pendingResolve, focusing, current, nextUid, everSubmitted,
                    collected, deliveries >>

\* tryListen: the 'error' event (an event is not delivered in the middle of
\* a synchronous registry operation of the same process)
ListenFail(w) ==
    /\ alive[w] /\ server[w] = "starting" /\ fileIO[w] = None
    /\ server' = [server EXCEPT ![w] = "failed"]
    /\ last' = Op("listenFail", w, None, None, NoReply, << >>)
    /\ UNCHANGED << disk, fileIO, now, ticks, alive, pid, context, port, pendingRequests, heap,
                    globalState, view, pendingResolve, focusing, current, registry,
                    pidFiles, nextUid, everSubmitted, collected, deliveries >>

\* MCPServer.handleSubmit with body {requestId, params}
handleSubmit(st, w, requestId, params) ==
    LET request == NewRequest(requestId, params, now, nextUid, w)
        st1 == [st EXCEPT !.map = MapSet(@, requestId, nextUid),
                          !.heap = PutObject(@, request)]
    IN processRequest(persistRequests(st1), nextUid)

\* updateLastActive on a file without a windows list throws before anything
\* else has happened; the http callback catches it and sends the 400 envelope
Submit(w, requestId, params, limit) ==
    /\ server[w] = "listening"
    /\ nextUid <= limit
    /\ LET read == readRegistry(disk, registry) IN
       IF ~read.list
       THEN /\ last' = Sent(Op("submit", w, requestId, params, ParseError, << >>), 400)
            /\ UNCHANGED << registry, disk, pendingRequests, heap, pendingResolve, focusing,
                            current, globalState, nextUid, everSubmitted, collected >>
       ELSE LET out == touchRegistry(disk, registry, read.windows, w)
                st == handleSubmit(St(w), w, requestId, params)
            IN /\ registry' = out.windows
               /\ disk' = out.disk
               /\ Commit(w, st)
               /\ last' = Responded(Op("submit", w, requestId, params,
                                       Reply("accepted", requestId, None, None), st.calls))
               /\ nextUid' = nextUid + 1
               /\ everSubmitted' = [everSubmitted EXCEPT ![w] = @ \cup {requestId}]
               /\ collected' = [collected EXCEPT ![w] = @ \ {requestId}]
    /\ UNCHANGED << fileIO, now, ticks, alive, pid, context, server, port, view, pidFiles,
                    deliveries >>

\* (variant: an id the map does not hold is reported as pending)
pollReplyLenient(m, h, requestId) ==
    IF ~MapHas(m, requestId)
    THEN Reply("pending", None, None, None)
    ELSE LET request == h[MapUid(m, requestId)] IN
         IF request.status = "completed"
         THEN Reply("completed", None, request.result, None)
         ELSE IF request.status = "error"
              THEN Reply("error", None, None, request.error)
              ELSE Reply("pending", None, None, None)

\* MCPServer.handlePoll: the reply to a poll of requestId
pollReply(m, h, requestId) ==
    IF ~MapHas(m, requestId)
    THEN Reply("error", None, None, Some("Request not found"))
    ELSE LET request == h[MapUid(m, requestId)] IN
         IF request.status = "completed"
         THEN Reply("completed", None, request.result, None)
         ELSE IF request.status = "error"
              THEN Reply("error", None, None, request.error)
              ELSE Reply("pending", None, None, None)

\* (variant: poll-and-peek, a terminal entry is not evicted)
handlePollPeek(st, requestId) == st

\* (variant: only a completed entry is evicted)
handlePollKeepError(st, requestId) ==
    IF ~MapHas(st.map, requestId) THEN st
    ELSE LET request == st.heap[MapUid(st.map, requestId)] IN
         IF request.status = "completed"
         THEN persistRequests([st EXCEPT !.map = MapDelete(@, requestId)])
         ELSE st

\* MCPServer.handlePoll: the state it leaves
handlePoll(st, requestId) ==
    IF ~MapHas(st.map, requestId) THEN st
    ELSE LET request == st.heap[MapUid(st.map, requestId)] IN
         IF request.status \in {"completed", "error"}
         THEN persistRequests([st EXCEPT !.map = MapDelete(@, requestId)])
         ELSE st

Poll(w, requestId) ==
    /\ server[w] = "listening"
    /\ LET m == pendingRequests[w]
           held == MapHas(m, requestId)
           terminal == held /\ heap[w][MapUid(m, requestId)].status # "pending"
           done == held /\ heap[w][MapUid(m, requestId)].status = "completed"
       IN /\ Commit(w, handlePoll(St(w), requestId))
          /\ last' = Responded(Op("poll", w, requestId, None,
                                  pollReply(m, heap[w], requestId), << >>))
          /\ collected' = [collected EXCEPT
                              ![w] = IF terminal THEN @ \cup {requestId} ELSE @]
          /\ deliveries' = IF done
                           THEN [deliveries EXCEPT ![MapUid(m, requestId)] = @ + 1]
                           ELSE deliveries
    /\ UNCHANGED << disk, fileIO, now, ticks, alive, pid, context, server, port, view, registry,
                    pidFiles, nextUid, everSubmitted >>


\* FeedbackPanelProvider.resolveWebviewView: the editor hands the panel its view
ResolveView(w) ==
    /\ alive[w] /\ view[w] # "ready"
    /\ view' = [view EXCEPT ![w] = "ready"]
    /\ last' = Op("resolveView", w, None, None, NoReply, << >>)
    /\ UNCHANGED << disk, fileIO, now, ticks, alive, pid, context, server, port, pendingRequests, heap,
                    globalState, pendingResolve, focusing, current, registry, pidFiles,
                    nextUid, everSubmitted, collected, deliveries >>

\* the editor disposes the view (the panel is closed); _view keeps the reference
DisposeView(w) ==
    /\ alive[w] /\ view[w] = "ready"
    /\ view' = [view EXCEPT ![w] = "disposed"]
    /\ last' = Op("disposeView", w, None, None, NoReply, << >>)
    /\ UNCHANGED << disk, fileIO, now, ticks, alive, pid, context, server, port, pendingRequests, heap,
                    globalState, pendingResolve, focusing, current, registry, pidFiles,
                    nextUid, everSubmitted, collected, deliveries >>

\* showMessage resumes after the focus command and the 500 ms wait of a call
\* made while there was no view; a throw is caught by processRequest
showMessageResume(st, call) ==
    LET r == InstallResolver([st EXCEPT !.focusing = @ \ {call}], call) IN
    IF ~r.rejected THEN r.st
    ELSE IF IsLegacy(st.heap[call]) THEN r.st
         ELSE FailRequest(r.st, call, DisposedMsg)

ShowResume(w, call) ==
    /\ alive[w] /\ call \in focusing[w]
    /\ Commit(w, showMessageResume(St(w), call))
    /\ last' = Responded(Op("showResume", w, heap[w][call].id, None,
                  IF IsLegacy(heap[w][call]) /\ view[w] = "disposed"
                  THEN LegacyError(heap[w][call].id, -32000, DisposedMsg) ELSE NoReply,
                  << >>))
    /\ UNCHANGED << disk, fileIO, now, ticks, alive, pid, context, server, port, view, registry,
                    pidFiles, nextUid, everSubmitted, collected, deliveries >>

\* FeedbackPanelProvider._handleSubmit(text, images): the string it resolves with
answerString(text, images) ==
    IF Len(images) > 0
    THEN JSONstringify(JObj(Some(JStr(text)),
                            Some(JArr([i \in 1..Len(images) |-> JStr(images[i])]))))
    ELSE text

\* (variant: the resolver stays installed after it has been called)
handleAnswerKeepResolver(st, text, images) ==
    IF ~IsSome(st.resolve) THEN st
    ELSE IF IsLegacy(st.heap[Get(st.resolve)]) THEN st
         ELSE CompleteRequest(st, Get(st.resolve), answerString(text, images))

\* FeedbackPanelProvider._handleSubmit, and the continuation of the
\* processRequest whose awaited promise it resolves
handleAnswer(st, text, images) ==
    IF ~IsSome(st.resolve) THEN st
    ELSE IF IsLegacy(st.heap[Get(st.resolve)]) THEN [st EXCEPT !.resolve = None]
         ELSE CompleteRequest([st EXCEPT !.resolve = None], Get(st.resolve),
                              answerString(text, images))

Answer(w, text, images) ==
    /\ alive[w] /\ view[w] = "ready"
    /\ Commit(w, handleAnswer(St(w), text, images))
    /\ last' = Responded(Op("answer", w,
                  IF IsSome(pendingResolve[w])
                  THEN heap[w][Get(pendingResolve[w])].id ELSE None,
                  None,
                  IF IsSome(pendingResolve[w]) /\ IsLegacy(heap[w][Get(pendingResolve[w])])
                  THEN LegacyResult(heap[w][Get(pendingResolve[w])].id,
                                    [content |-> legacyContent(answerString(text, images))])
                  ELSE NoReply,
                  << >>))
    /\ UNCHANGED << disk, fileIO, now, ticks, alive, pid, context, server, port, view, registry,
                    pidFiles, nextUid, everSubmitted, collected, deliveries >>

\* time passes
Tick(d) ==
    /\ ticks < MaxTicks
    /\ now' = now + d
    /\ ticks' = ticks + 1
    /\ last' = Op("tick", 0, None, None, NoReply, << >>)
    /\ UNCHANGED << disk, fileIO, alive, pid, context, server, port, pendingRequests, heap, globalState,
                    view, pendingResolve, focusing, current, registry, pidFiles, nextUid,
                    everSubmitted, collected, deliveries >>

\* the process of window w is gone: everything it held in memory with it
ProcessGone(w) ==
    /\ alive' = [alive EXCEPT ![w] = FALSE]
    /\ pid' = [pid EXCEPT ![w] = 0]
    /\ context' = [context EXCEPT ![w] = FALSE]
    /\ server' = [server EXCEPT ![w] = "none"]
    /\ port' = [port EXCEPT ![w] = 0]
    /\ pendingRequests' = [pendingRequests EXCEPT ![w] = << >>]
    /\ heap' = [heap EXCEPT ![w] = << >>]
    /\ view' = [view EXCEPT ![w] = "none"]
    /\ pendingResolve' = [pendingResolve EXCEPT ![w] = None]
    /\ focusing' = [focusing EXCEPT ![w] = {}]
    /\ current' = [current EXCEPT ![w] = NoCurrent]
    /\ fileIO' = [fileIO EXCEPT ![w] = None]

\* the window is reloaded or killed without deactivate() running
Crash(w) ==
    /\ alive[w]
    /\ ProcessGone(w)
    /\ last' = Op("crash", w, None, None, NoReply, << >>)
    /\ UNCHANGED << disk, now, ticks, globalState, registry, pidFiles, nextUid, everSubmitted,
                    collected, deliveries >>

\* deactivate(): MCPServer.stop(), then the process ends.  unregisterWindow
\* on a file without a windows list throws out of stop() before it has
\* written the registry or deleted the discovery file
Deactivate(w) ==
    /\ alive[w]
    /\ LET read == readRegistry(disk, registry) IN
       IF read.list
       THEN LET out == writeRegistry(disk, registry, unregisterWindow(read.windows, w)) IN
            /\ registry' = out.windows
            /\ disk' = out.disk
            /\ pidFiles' = deletePidRegistry(pidFiles, w)
            /\ last' = Op("deactivate", w, None, None, NoReply, << >>)
       ELSE /\ UNCHANGED << registry, disk, pidFiles >>
            /\ last' = Op("deactivate", w, None, None, Raised(ListTypeError), << >>)
    /\ ProcessGone(w)
    /\ UNCHANGED << now, ticks, globalState, nextUid, everSubmitted, collected,
                    deliveries >>

(***************************************************************************)
(* The http callback of start(): method, url and body of a request.        *)
(***************************************************************************)
Methods == {"OPTIONS", "GET", "POST"}
Urls == {"/submit", "/poll", "/mcp"}
\* the objects a helper sends
SubmitBody(requestId, params) == [t |-> "object", requestId |-> requestId, params |-> params]
PollBody(requestId) == [t |-> "object", requestId |-> requestId]
RpcBody(id, method, params) == [t |-> "object", id |-> id, method |-> method, params |-> params]
\* a body is text: no JSON document, the JSON text null, or the JSON text of
\* an object
BodiesOf(url) ==
    {Plain("{oops"), JsonText(JNull)}
        \cup (CASE url = "/submit" -> {JsonText(SubmitBody(Some("r1"), ToolParams))}
               [] url = "/poll" -> {JsonText(PollBody(Some("r1")))}
               [] OTHER -> {JsonText(RpcBody(id, b.method, b.params)) :
                               id \in RpcIds, b \in LegacyBodies})

\* a response that no handler produced
Respond(w, name, code, reply) ==
    /\ last' = Sent(Op(name, w, None, None, reply, << >>), code)
    /\ UNCHANGED << registry, disk, fileIO, now, ticks, alive, pid, context, server, port,
                    pendingRequests, heap, globalState, view, pendingResolve, focusing,
                    current, pidFiles, nextUid, everSubmitted, collected, deliveries >>

\* the body is the JSON text null: const { ... } = data throws a TypeError in
\* each handler, in handleSubmit after updateLastActive has run; the catch
\* of the callback answers 400 with the parse-error envelope
NullBody(w, url) ==
    IF url = "/submit"
    THEN LET read == readRegistry(disk, registry)
             out == IF read.list THEN touchRegistry(disk, registry, read.windows, w)
                    ELSE [disk |-> disk, windows |-> registry]
         IN /\ registry' = out.windows
            /\ disk' = out.disk
            /\ last' = Sent(Op("submit", w, None, None, ParseError, << >>), 400)
            /\ UNCHANGED << fileIO, now, ticks, alive, pid, context, server, port,
                            pendingRequests, heap, globalState, view, pendingResolve,
                            focusing, current, pidFiles, nextUid, everSubmitted,
                            collected, deliveries >>
    ELSE Respond(w, IF url = "/poll" THEN "poll" ELSE "legacy", 400, ParseError)

\* http.createServer(async (req, res) => ...): one request from its arrival
\* to the first suspension of its handler
HttpRequest(w, method, url, body, limit) ==
    /\ server[w] = "listening"
    /\ IF method = "OPTIONS" THEN Respond(w, "options", 200, NoReply)
       ELSE IF method # "POST" THEN Respond(w, "notAllowed", 405, NoReply)
       ELSE IF ~CanParse(body) THEN Respond(w, "badBody", 400, ParseError)
       ELSE LET data == JSONparse(body) IN
            IF data.t = "null" THEN NullBody(w, url)
            ELSE IF url = "/submit" THEN Submit(w, data.requestId, data.params, limit)
            ELSE IF url = "/poll" THEN Poll(w, data.requestId)
            ELSE LegacyRequest(w, data.id, data.method, data.params, limit)

\* something outside the extension removes, locks or overwrites ports.json;
\* only a write of the extension makes a damaged file "ok" again
Damage(d) ==
    /\ d # disk
    /\ d.file = "ok" => disk.file = "ok"
    /\ disk' = d
    /\ registry' = IF d.file = "ok" THEN registry ELSE << >>
    /\ last' = Op("damage", 0, None, None, NoReply, << >>)
    /\ UNCHANGED << fileIO, now, ticks, alive, pid, context, server, port, pendingRequests,
                    heap, globalState, view, pendingResolve, focusing, current, pidFiles,
                    nextUid, everSubmitted, collected, deliveries >>

(***************************************************************************)
(* The registry operations step by step.  Inside one process a handler     *)
(* runs without interruption, but readFileSync and writeFileSync are two   *)
(* system calls: other processes run between the read of ports.json and    *)
(* the write that follows it.  fileIO[w] holds what w has read.            *)
(***************************************************************************)
Reading(op, windows, requestId, params) ==
    Some([op |-> op, windows |-> windows, requestId |-> requestId, params |-> params])
Idle(w) == fileIO[w] = None
InOp(w, op) == IsSome(fileIO[w]) /\ Get(fileIO[w]).op = op

\* tryListen: the 'listening' event, up to registerWindow's readRegistry
ListenRead(w, p) ==
    /\ alive[w] /\ server[w] = "starting" /\ Idle(w)
    /\ \A v \in Windows : ~(server[v] = "listening" /\ port[v] = p)
    /\ server' = [server EXCEPT ![w] = "listening"]
    /\ port' = [port EXCEPT ![w] = p]
    /\ fileIO' = [fileIO EXCEPT ![w] = Reading("register", registry, None, None)]
    /\ last' = Op("listenRead", w, None, None, NoReply, << >>)
    /\ UNCHANGED << disk, now, ticks, alive, pid, context, pendingRequests, heap, globalState,
                    view, pendingResolve, focusing, current, registry, pidFiles, nextUid,
                    everSubmitted, collected, deliveries >>

\* registerWindow from the filters on: writeRegistry and writePidRegistry
RegisterWrite(w) ==
    /\ InOp(w, "register")
    /\ registry' = registerWindow(Get(fileIO[w]).windows, w, port[w])
    /\ pidFiles' = writePidRegistry(pidFiles, w, port[w])
    /\ fileIO' = [fileIO EXCEPT ![w] = None]
    /\ last' = Op("registerWrite", w, None, Some(Get(fileIO[w]).windows), NoReply, << >>)
    /\ UNCHANGED << disk, now, ticks, alive, pid, context, server, port, pendingRequests, heap,
                    globalState, view, pendingResolve, focusing, current, nextUid,
                    everSubmitted, collected, deliveries >>

\* handleSubmit up to updateLastActive's readRegistry
SubmitRead(w, requestId, params, limit) ==
    /\ server[w] = "listening" /\ Idle(w)
    /\ nextUid <= limit
    /\ fileIO' = [fileIO EXCEPT ![w] = Reading("touch", registry, requestId, params)]
    /\ last' = Op("submitRead", w, requestId, params, NoReply, << >>)
    /\ UNCHANGED << disk, now, ticks, alive, pid, context, server, port, pendingRequests, heap,
                    globalState, view, pendingResolve, focusing, current, registry,
                    pidFiles, nextUid, everSubmitted, collected, deliveries >>

\* handleSubmit from updateLastActive's find on: the file is written only
\* when the list that was read has the entry of this process
SubmitWrite(w) ==
    /\ InOp(w, "touch")
    /\ LET read == Get(fileIO[w]).windows
           requestId == Get(fileIO[w]).requestId
           params == Get(fileIO[w]).params
           out == touchRegistry(disk, registry, read, w)
           st == handleSubmit(St(w), w, requestId, params)
       IN /\ registry' = out.windows
          /\ disk' = out.disk
          /\ Commit(w, st)
          /\ last' = Responded(Op("submit", w, requestId, params,
                                  Reply("accepted", requestId, None, None), st.calls))
          /\ everSubmitted' = [everSubmitted EXCEPT ![w] = @ \cup {requestId}]
          /\ collected' = [collected EXCEPT ![w] = @ \ {requestId}]
    /\ fileIO' = [fileIO EXCEPT ![w] = None]
    /\ nextUid' = nextUid + 1
    /\ UNCHANGED << now, ticks, alive, pid, context, server, port, view, pidFiles,
                    deliveries >>

\* deactivate(): stop() up to unregisterWindow's readRegistry
StopRead(w) ==
    /\ alive[w] /\ Idle(w)
    /\ fileIO' = [fileIO EXCEPT ![w] = Reading("unregister", registry, None, None)]
    /\ last' = Op("stopRead", w, None, None, NoReply, << >>)
    /\ UNCHANGED << disk, now, ticks, alive, pid, context, server, port, pendingRequests, heap,
                    globalState, view, pendingResolve, focusing, current, registry,
                    pidFiles, nextUid, everSubmitted, collected, deliveries >>

\* unregisterWindow from its filter on, deletePidRegistry, and the process ends
StopWrite(w) ==
    /\ InOp(w, "unregister")
    /\ registry' = unregisterWindow(Get(fileIO[w]).windows, w)
    /\ pidFiles' = deletePidRegistry(pidFiles, w)
    /\ ProcessGone(w)
    /\ last' = Op("stopWrite", w, None, Some(Get(fileIO[w]).windows), NoReply, << >>)
    /\ UNCHANGED << disk, now, ticks, globalState, nextUid, everSubmitted, collected,
                    deliveries >>

(***************************************************************************)
(* Specifications.                                                         *)
(***************************************************************************)
Init ==
    /\ now = 0
    /\ ticks = 0
    /\ alive = [w \in Windows |-> FALSE]
    /\ pid = [w \in Windows |-> 0]
    /\ context = [w \in Windows |-> FALSE]
    /\ server = [w \in Windows |-> "none"]
    /\ port = [w \in Windows |-> 0]
    /\ pendingRequests = [w \in Windows |-> << >>]
    /\ heap = [w \in Windows |-> << >>]
    /\ globalState = << >>
    /\ view = [w \in Windows |-> "none"]
    /\ pendingResolve = [w \in Windows |-> None]
    /\ focusing = [w \in Windows |-> {}]
    /\ current = [w \in Windows |-> NoCurrent]
    /\ registry = << >>
    /\ disk = Healthy
    /\ pidFiles = << >>
    /\ fileIO = [w \in Windows |-> None]
    /\ last = Op("init", 0, None, None, NoReply, << >>)
    /\ nextUid = 1
    /\ everSubmitted = [w \in Windows |-> {}]
    /\ collected = [w \in Windows |-> {}]
    /\ deliveries = [u \in 1..(MaxSubmits + MaxBodies) |-> 0]

\* the process of window w starts, binds its port, or is gone
Lifecycle(w) ==
    \/ \E p \in PidsOf(w) : Activate(w, p)
    \/ \E p \in PortsOf(w) : Listen(w, p)
    \/ Crash(w)

\* the bind fails; the extension is deactivated
Shutdown(w) ==
    \/ ListenFail(w)
    \/ Deactivate(w)

\* the panel of window w and the human in front of it
Panel(w, images) ==
    \/ ResolveView(w)
    \/ \E call \in focusing[w] : ShowResume(w, call)
    \/ \E text \in AnswerTexts, imgs \in images : Answer(w, text, imgs)

\* the helper's requests to window w: at most limit /submit bodies, drawn
\* from ids and paramsSet
Requests(w, ids, paramsSet, limit) ==
    \/ \E requestId \in ids, params \in paramsSet : Submit(w, requestId, params, limit)
    \/ \E requestId \in ids : Poll(w, requestId)

Broker == 1

\* one window, well-formed /submit bodies
Next ==
    \/ Lifecycle(Broker)
    \/ Panel(Broker, AnswerImages)
    \/ DisposeView(Broker)
    \/ Requests(Broker, RequestIds, {ToolParams}, MaxSubmits)

Spec == Init /\ [][Next]_vars

\* one window, every kind of /submit body, and the whole life of the listener
NextInputs ==
    \/ Lifecycle(Broker)
    \/ Shutdown(Broker)
    \/ Panel(Broker, AnswerImages)
    \/ DisposeView(Broker)
    \/ Requests(Broker, AllIds, ParamsSet, MaxBodies)

SpecInputs == Init /\ [][NextInputs]_vars

\* one window and the clock
NextRecovery ==
    \/ Lifecycle(Broker)
    \/ Panel(Broker, {<< >>})
    \/ Requests(Broker, RequestIds, {ToolParams}, MaxSubmits)
    \/ \E d \in TickSteps : Tick(d)

SpecRecovery == Init /\ [][NextRecovery]_vars

\* every window, sharing the globalState, the registry and the discovery directory
NextWindows ==
    \E w \in Windows :
        \/ Lifecycle(w)
        \/ Panel(w, {<< >>})
        \/ Requests(w, RequestIds, {ToolParams}, MaxBodies)

SpecWindows == Init /\ [][NextWindows]_vars

\* the helper of window w names its requests after the window, and the
\* human in front of window w types the letter of the window
IdsOf(w) == {Some(IF w = 1 THEN "r1" ELSE "r2")}
TextOf(w) == IF w = 1 THEN Plain("A") ELSE Plain("B")

\* every window with its own helper, the windows sharing the globalState
NextShared ==
    \E w \in Windows :
        \/ \E p \in PidsOf(w) : Activate(w, p)
        \/ \E p \in PortsOf(w) : Listen(w, p)
        \/ ResolveView(w)
        \/ \E call \in focusing[w] : ShowResume(w, call)
        \/ Answer(w, TextOf(w), << >>)
        \/ Requests(w, IdsOf(w), {ToolParams}, MaxSubmits)

SpecShared == Init /\ [][NextShared]_vars

\* every window with its own helper and nobody at the panels: the windows
\* are reloaded while their requests wait, and time passes
NextReload ==
    \/ \E w \in Windows :
          \/ Lifecycle(w)
          \/ \E requestId \in IdsOf(w) : Submit(w, requestId, ToolParams, MaxSubmits)
    \/ \E d \in TickSteps : Tick(d)

SpecReload == Init /\ [][NextReload]_vars

\* one window and every kind of http request, while time passes
NextTransport ==
    \/ Lifecycle(Broker)
    \/ Panel(Broker, {<< >>})
    \/ \E method \in Methods, url \in Urls :
          \E body \in BodiesOf(url) : HttpRequest(Broker, method, url, body, MaxSubmits)
    \/ Tick(HOUR)

SpecTransport == Init /\ [][NextTransport]_vars

\* one window and a registry file in every condition
NextDegraded ==
    \/ Lifecycle(Broker)
    \/ Shutdown(Broker)
    \/ Requests(Broker, {Some("r1")}, {ToolParams}, MaxBodies)
    \/ \E d \in [file : FileStates, writable : BOOLEAN] : Damage(d)

SpecDegraded == Init /\ [][NextDegraded]_vars

\* one window whose process does not exit, and a human who keeps answering:
\* the view is resolved when asked for, a suspended showMessage resumes, and
\* the question the panel shows is answered
NextProgress ==
    \/ \E p \in PidsOf(Broker) : Activate(Broker, p)
    \/ \E p \in PortsOf(Broker) : Listen(Broker, p)
    \/ Panel(Broker, {<< >>})
    \/ Requests(Broker, RequestIds, {ToolParams}, MaxSubmits)

HumanAnswers ==
    /\ WF_vars(ResolveView(Broker))
    /\ WF_vars(\E call \in focusing[Broker] : ShowResume(Broker, call))
    /\ WF_vars(\E text \in AnswerTexts : Answer(Broker, text, << >>))

SpecProgress == Init /\ [][NextProgress]_vars /\ HumanAnswers

\* listen(0): the operating system picks any port that is free
FreePorts == UNION {PortsOf(w) : w \in Windows}

\* every window, the registry file read and written in separate steps
Registration(w) ==
    \/ \E p \in PidsOf(w) : Activate(w, p)
    \/ \E p \in FreePorts : ListenRead(w, p)
    \/ RegisterWrite(w)
    \/ SubmitRead(w, Some("r1"), ToolParams, MaxBodies)
    \/ SubmitWrite(w)
    \/ StopRead(w)
    \/ StopWrite(w)
    \/ Crash(w)

NextRegistry == \E w \in Windows : Registration(w)

SpecRegistry == Init /\ [][NextRegistry]_vars

\* two windows that register and handle /submit, the file read and written
\* in separate steps, while time passes
NextTouch ==
    \/ \E w \in Windows :
          \/ \E p \in PidsOf(w) : Activate(w, p)
          \/ \E p \in PortsOf(w) : ListenRead(w, p)
          \/ RegisterWrite(w)
          \/ \E requestId \in IdsOf(w) : SubmitRead(w, requestId, ToolParams, MaxSubmits)
          \/ SubmitWrite(w)
    \/ Tick(HOUR)

SpecTouch == Init /\ [][NextTouch]_vars

\* two windows whose bind succeeds or fails and that are stopped, the file
\* read and written in separate steps
NextFailedBind ==
    \E w \in Windows :
        \/ \E p \in PidsOf(w) : Activate(w, p)
        \/ \E p \in PortsOf(w) : ListenRead(w, p)
        \/ RegisterWrite(w)
        \/ ListenFail(w)
        \/ StopRead(w)
        \/ StopWrite(w)

SpecFailedBind == Init /\ [][NextFailedBind]_vars

\* one window, the submit/poll path and the legacy path side by side
NextLegacy ==
    \/ Lifecycle(Broker)
    \/ Panel(Broker, {<< >>})
    \/ DisposeView(Broker)
    \/ Requests(Broker, {Some("r1")}, {ToolParams}, MaxBodies)
    \/ \E id \in RpcIds, body \in LegacyBodies :
          LegacyRequest(Broker, id, body.method, body.params, MaxSubmits)
    \/ Tick(HOUR)

SpecLegacy == Init /\ [][NextLegacy]_vars

\* one window whose helper uses both paths with the same identifiers
NextOverlap ==
    \/ \E p \in PidsOf(Broker) : Activate(Broker, p)
    \/ \E p \in PortsOf(Broker) : Listen(Broker, p)
    \/ Panel(Broker, {<< >>})
    \/ DisposeView(Broker)
    \/ Requests(Broker, {Some("r1")}, {ToolParams}, MaxBodies)
    \/ \E id \in OverlapIds, body \in LegacyBodies :
          LegacyRequest(Broker, id, body.method, body.params, MaxSubmits)

SpecOverlap == Init /\ [][NextOverlap]_vars

\* windows come and go, with or without stop; whatever happens to window 1,
\* window 2 starts again when it is down and registers when it has started
NextLeftover ==
    \E w \in Windows :
        \/ Lifecycle(w)
        \/ Deactivate(w)
        \/ \E requestId \in IdsOf(w) : Submit(w, requestId, ToolParams, MaxBodies)

OthersRegister ==
    /\ WF_vars(\E p \in PidsOf(2) : Activate(2, p))
    /\ WF_vars(\E p \in PortsOf(2) : Listen(2, p))

SpecLeftover == Init /\ [][NextLeftover]_vars /\ OthersRegister

\* the parser alone: an answer string is drawn, parseResponse is applied to it
ParseAnswer ==
    /\ last.op = "feedback"
    /\ last' = Op("parseResponse", 0, None, last.params,
                  Some(parseResponse(Get(last.params))), << >>)
    /\ UNCHANGED << disk, fileIO, now, ticks, alive, pid, context, server, port, pendingRequests, heap,
                    globalState, view, pendingResolve, focusing, current, registry,
                    pidFiles, nextUid, everSubmitted, collected, deliveries >>

InitParser ==
    /\ now = 0
    /\ ticks = 0
    /\ alive = [w \in Windows |-> FALSE]
    /\ pid = [w \in Windows |-> 0]
    /\ context = [w \in Windows |-> FALSE]
    /\ server = [w \in Windows |-> "none"]
    /\ port = [w \in Windows |-> 0]
    /\ pendingRequests = [w \in Windows |-> << >>]
    /\ heap = [w \in Windows |-> << >>]
    /\ globalState = << >>
    /\ view = [w \in Windows |-> "none"]
    /\ pendingResolve = [w \in Windows |-> None]
    /\ focusing = [w \in Windows |-> {}]
    /\ current = [w \in Windows |-> NoCurrent]
    /\ registry = << >>
    /\ disk = Healthy
    /\ pidFiles = << >>
    /\ fileIO = [w \in Windows |-> None]
    /\ \E feedback \in Feedbacks : last = Op("feedback", 0, None, Some(feedback), NoReply, << >>)
    /\ nextUid = 1
    /\ everSubmitted = [w \in Windows |-> {}]
    /\ collected = [w \in Windows |-> {}]
    /\ deliveries = [u \in 1..(MaxSubmits + MaxBodies) |-> 0]

\* the two paths side by side: the tools/call case builds its content list
\* from the answer string that parseResponse has just been given
ParseLegacy ==
    /\ last.op = "parseResponse"
    /\ last' = Op("toolsCall", 0, None, last.params,
                  Some(legacyContent(Get(last.params))), << >>)
    /\ UNCHANGED << disk, fileIO, now, ticks, alive, pid, context, server, port, pendingRequests, heap,
                    globalState, view, pendingResolve, focusing, current, registry,
                    pidFiles, nextUid, everSubmitted, collected, deliveries >>

NextParser == ParseAnswer \/ ParseLegacy

SpecParser == InitParser /\ [][NextParser]_vars


(***************************************************************************)
(* Properties.                                                             *)
(***************************************************************************)
Map == pendingRequests[Broker]
Heap == heap[Broker]
Held(k) == MapHas(Map, k)
Entry(k) == Heap[MapUid(Map, k)]
PollNow(k) == pollReply(Map, Heap, k)
PollNext(k) == pollReply(pendingRequests'[Broker], heap'[Broker], k)
NotFound == Reply("error", None, None, Some("Request not found"))
Pending == Reply("pending", None, None, None)
Accepted(k) == Reply("accepted", k, None, None)

\* C1: a submit with a fresh id and a message is answered accepted and leaves
\* the request pending, and a poll of a pending id keeps answering pending
\* over every step that is neither a human answer nor the end of the
\* process, as long as no display fails (the view is not disposed).
C1_SubmitNeverWaits ==
    [][\A k \in RequestIds :
          /\ (Submit(Broker, k, ToolParams, MaxSubmits) /\ ~Held(k)
                /\ view[Broker] # "disposed")
             => (last'.reply = Accepted(k) /\ PollNext(k) = Pending)
          /\ (PollNow(k) = Pending /\ view[Broker] # "disposed"
                /\ last'.op \notin {"answer", "crash"})
             => PollNext(k) = Pending]_vars

C1_Witness ==
    /\ last.op = "submit" /\ last.id = Some("r2") /\ last.reply = Accepted(Some("r2"))
    /\ Len(Map) = 2
    /\ PollNow(Some("r2")) = Pending

\* the snapshot holds a completed entry under k whose result no poll has returned
Owed(k) ==
    \E i \in 1..Len(globalState) :
        /\ globalState[i].id = k
        /\ globalState[i].status = "completed"
        /\ deliveries[globalState[i].uid] = 0

OwedResult(k) ==
    globalState[CHOOSE i \in 1..Len(globalState) :
                    globalState[i].id = k /\ globalState[i].status = "completed"].result

\* C2 as claimed: once a request has become completed, the first poll of its
\* id returns completed with its result.
C2_FirstPollReturnsResult ==
    [][\A k \in RequestIds :
          (Poll(Broker, k) /\ Owed(k))
          => last'.reply = Reply("completed", None, OwedResult(k), None)]_vars

\* C2 amended: a poll of an id under which the map holds a completed entry
\* returns completed with that entry's result and removes the entry, so that
\* the next poll answers 'Request not found'; an id whose result was
\* collected is not held again until it is submitted again; and no result is
\* returned by more than one poll.
C2_ExactlyOnce ==
    /\ [][\A k \in RequestIds :
             (Poll(Broker, k) /\ Held(k) /\ Entry(k).status = "completed")
             => /\ last'.reply = Reply("completed", None, Entry(k).result, None)
                /\ PollNext(k) = NotFound]_vars
    /\ [](\A k \in collected[Broker] : ~Held(k))
    /\ [](\A u \in DOMAIN deliveries : deliveries[u] <= 1)

C2_Witness ==
    /\ last.op = "poll"
    /\ Get(last.reply).status = "completed"
    /\ last.id \in collected[Broker]
    /\ \E u \in DOMAIN deliveries : deliveries[u] = 1

Stored == {globalState[i] : i \in 1..Len(globalState)}
Known(u) == u \in DOMAIN Heap \/ \E r \in Stored : r.uid = u
Record(u) ==
    IF u \in DOMAIN Heap THEN Serialise(Heap[u]) ELSE CHOOSE r \in Stored : r.uid = u
KnownNext(u) ==
    u \in DOMAIN heap'[Broker] \/ \E i \in 1..Len(globalState') : globalState'[i].uid = u
RecordNext(u) ==
    IF u \in DOMAIN heap'[Broker] THEN Serialise(heap'[Broker][u])
    ELSE globalState'[CHOOSE i \in 1..Len(globalState') : globalState'[i].uid = u]

\* C4: the status of a request changes only from pending to completed or to
\* error; a terminal request never changes again; a poll of an id held with
\* a terminal status removes the entry; result is set only with completed
\* and error only with error.
C4_StateMachine ==
    /\ [][\A u \in 1..(MaxSubmits + MaxBodies) :
             (Known(u) /\ KnownNext(u))
             => /\ (Record(u).status # RecordNext(u).status
                      => (Record(u).status = "pending"
                            /\ RecordNext(u).status \in {"completed", "error"}))
                /\ (Record(u).status # "pending" => RecordNext(u) = Record(u))]_vars
    /\ [][\A k \in RequestIds :
             (Poll(Broker, k) /\ Held(k) /\ Entry(k).status # "pending")
             => ~MapHas(pendingRequests'[Broker], k)]_vars
    /\ [](\A u \in 1..(MaxSubmits + MaxBodies) :
            Known(u) => /\ (IsSome(Record(u).result) <=> Record(u).status = "completed")
                        /\ (IsSome(Record(u).error) => Record(u).status = "error"))

C4_Witness ==
    \E u, v \in DOMAIN Heap :
        /\ Heap[u].status = "completed" /\ IsSome(Heap[u].result)
        /\ Heap[v].status = "error" /\ IsSome(Heap[v].error)


\* a /submit body the protocol calls invalid: the requestId empty or missing,
\* or params without a message
HasMessage(params) ==
    /\ IsSome(params)
    /\ \/ IsSome(Get(params).message)
       \/ (IsSome(Get(params).arguments) /\ IsSome(Get(Get(params).arguments).message))
InvalidBody(requestId, params) == requestId \in BadIds \/ ~HasMessage(params)

\* C5 as claimed: a submit with an empty or missing requestId, or with params
\* that carry no message, is answered with an error, creates and persists no
\* PendingRequest, and displays nothing.
C5_InvalidSubmitFails ==
    (last.op = "submit" /\ InvalidBody(last.id, last.params))
    => /\ Get(last.reply).status = "error"
       /\ ~Held(last.id)
       /\ \A i \in 1..Len(globalState) : globalState[i].id # last.id
       /\ last.calls = << >>

\* C6 as claimed: for a body {requestId, params: {message, predefined_options}}
\* the broker hands params.message, params.predefined_options and the
\* requestId to showMessage.
C6_ShowsTopLevelMessage ==
    (last.op = "submit" /\ IsSome(last.params) /\ IsSome(Get(last.params).message))
    => last.calls = << [message |-> Get(Get(last.params).message),
                        options |-> Get(last.params).predefined_options,
                        requestId |-> last.id] >>

\* C6 amended: for a body whose params is an object, the broker makes one
\* showMessage call with the requestId of the body, whose message is
\* params.arguments.message (the empty string when params.arguments or its
\* message is missing) and whose options are
\* params.arguments.predefined_options (undefined when missing).
C6_ShowsArguments ==
    (last.op = "submit" /\ IsSome(last.params))
    => LET p == Get(last.params) IN
       /\ Len(last.calls) = 1
       /\ last.calls[1].requestId = last.id
       /\ IsSome(p.arguments)
            => /\ last.calls[1].message =
                     (IF IsSome(Get(p.arguments).message)
                      THEN Get(Get(p.arguments).message) ELSE "")
               /\ last.calls[1].options = Get(p.arguments).predefined_options
       /\ ~IsSome(p.arguments)
            => /\ last.calls[1].message = ""
               /\ last.calls[1].options = None

C6_Witness ==
    /\ last.op = "submit" /\ last.params = ToolParams
    /\ last.calls = << [message |-> Question, options |-> Some(Options),
                        requestId |-> last.id] >>
    /\ current[Broker].message = Question

\* C7: right after a process has started and loaded the snapshot, the live
\* map holds exactly the stored entries that are pending and younger than
\* seven days, in the stored order and still pending, showMessage has been
\* called once for each of them with its id, and nothing else is in the map.
C7_RecoveryFilter ==
    last.op = "activate"
    => LET kept == SelectSeq(globalState,
                       LAMBDA r : r.status = "pending" /\ now - r.createdAt < SEVEN_DAYS)
       IN /\ Snapshot(Map, Heap) = kept
          /\ [i \in 1..Len(Map) |-> Map[i].key] = [i \in 1..Len(kept) |-> kept[i].id]
          /\ [i \in 1..Len(last.calls) |-> last.calls[i].requestId]
                = [i \in 1..Len(kept) |-> kept[i].id]
          /\ DOMAIN Heap = MapUids(Map)

C7_Witness ==
    /\ last.op = "activate"
    /\ Len(Map) = 1 /\ Len(last.calls) = 1
    /\ \E i \in 1..Len(globalState) :
          /\ globalState[i].status = "pending"
          /\ now - globalState[i].createdAt = SEVEN_DAYS
    /\ \E i \in 1..Len(globalState) :
          /\ globalState[i].status = "pending"
          /\ now - globalState[i].createdAt < SEVEN_DAYS
          /\ Held(globalState[i].id)

\* the human can still answer request u: its showMessage call holds the
\* installed resolver, or has yet to install it
Answerable(u) == u \in focusing[Broker] \/ pendingResolve[Broker] = Some(u)

\* C8 as claimed: after a restart every request it reinstated can still be
\* answered (stated for the processes in which every object was reinstated
\* by the restore, none submitted since).
C8_ReinstatedAnswerable ==
    (\A u \in DOMAIN Heap : Heap[u].via = "restore")
    => \A u \in MapUids(Map) : Heap[u].status = "pending" => Answerable(u)

\* C9 as claimed: once the persistence handle is set, the snapshot equals
\* the contents of the map after every step.
C9_SnapshotEqualsMap ==
    context[Broker] => globalState = Snapshot(Map, Heap)

\* C10 as claimed: a request accepted by one window never enters the map of
\* another window.
C10_ExclusiveOwnership ==
    \A w \in Windows :
        \A u \in MapUids(pendingRequests[w]) : heap[w][u].owner = w


\* the answer string the parser was given and the content list it returned
Parsed == last.op = "parseResponse"
Feedback == Get(last.params)
Content == Get(last.reply)
WholeText == << TextPart(JStr(Feedback)) >>
EmptyText == << TextPart(JStr(EmptyStr)) >>
\* the string is a structured envelope: a JSON object with a text field
\* and/or an images list
IsEnvelope(s) ==
    /\ CanParse(s)
    /\ JSONparse(s).t = "object"
    /\ \/ IsSome(JSONparse(s).text)
       \/ (IsSome(JSONparse(s).images) /\ Get(JSONparse(s).images).t = "array")
EnvelopeItems(s) ==
    IF IsSome(JSONparse(s).images) /\ Get(JSONparse(s).images).t = "array"
    THEN Get(JSONparse(s).images).items ELSE << >>
IsDataUrlEntry(e) == e.t = "string" /\ e.s.kind = "dataurl"

\* C11 as claimed: an answer string that is not a structured envelope, JSON
\* or not, is returned as exactly one text part holding the whole string.
C11_NonEnvelopeIsWholeText ==
    (Parsed /\ ~IsEnvelope(Feedback)) => Content = WholeText

\* the parts C12 describes for an envelope: the text part if text is
\* non-empty, then one image part per matching entry, in list order
EnvelopeParts(s) ==
    LET text == JSONparse(s).text
        hits == SelectSeq(EnvelopeItems(s), IsDataUrlEntry)
    IN (IF IsSome(text) /\ Truthy(Get(text)) THEN << TextPart(Get(text)) >> ELSE << >>)
       \o [i \in 1..Len(hits) |-> ImagePart(hits[i].s.mime, hits[i].s.payload)]

\* C12 as claimed: for an envelope the result is the text part (iff text is
\* non-empty) followed by one image part per matching images entry, in order;
\* an entry that does not match, whatever its value, is skipped and changes
\* nothing else (one empty text part stands for no part at all).
C12_EnvelopeParts ==
    (Parsed /\ IsEnvelope(Feedback))
    => Content = (IF EnvelopeParts(Feedback) = << >> THEN EmptyText
                  ELSE EnvelopeParts(Feedback))

\* the parse of s reaches its end with no text part and no image part
NothingProduced(s) ==
    /\ CanParse(s) /\ JSONparse(s).t # "null"
    /\ JSONparse(s).t = "object"
         => /\ ~(IsSome(JSONparse(s).text) /\ Truthy(Get(JSONparse(s).text)))
            /\ \A i \in 1..Len(EnvelopeItems(s)) :
                  /\ EnvelopeItems(s)[i].t = "string"
                  /\ ~IsDataUrlEntry(EnvelopeItems(s)[i])

\* C13: the content list of every answer string has at least one part, each
\* a text or an image part; when the parse produced neither, the list is
\* exactly one text part with the empty string.
C13_NeverEmpty ==
    Parsed
    => /\ Len(Content) >= 1
       /\ \A i \in 1..Len(Content) : Content[i].type \in {"text", "image"}
       /\ NothingProduced(Feedback) => Content = EmptyText

C13_Witness ==
    /\ Parsed
    /\ Feedback = JsonText(JObj(Some(JStr(EmptyStr)),
                                Some(JArr(<< JStr(Plain("not-a-data-url")) >>))))
    /\ Content = EmptyText


\* the registry list reg holds an entry with port p and pid q
EntryOf(reg, p, q) == \E i \in 1..Len(reg) : reg[i].port = p /\ reg[i].pid = q
HasPid(reg, q) == \E i \in 1..Len(reg) : reg[i].pid = q
\* the list the last register or unregister call had read
LastRead == Get(last.params)

\* C14: the file a register call of process w writes is the entries it read
\* whose pid is running and is not w's, in the order read, followed by one
\* new entry with w's port and pid; no entry of a dead pid and no earlier
\* entry of w is in it.
C14_RegisterRewrites ==
    [][\A w \in Windows :
          RegisterWrite(w)
          => LET read == Get(fileIO[w]).windows
                 kept == SelectSeq(read, LAMBDA e : IsRunning(e.pid) /\ e.pid # pid[w])
             IN /\ registry' = Append(kept, [port |-> port[w], pid |-> pid[w],
                                             lastActive |-> now])
                /\ \A i \in 1..Len(registry') : IsRunning(registry'[i].pid)
                /\ \A i \in 1..(Len(registry') - 1) : registry'[i].pid # pid[w]]_vars

C14_Witness ==
    /\ last.op = "registerWrite" /\ last.w = 1
    /\ HasPid(LastRead, 101) /\ HasPid(LastRead, 102)
    /\ ~alive[2]
    /\ Len(registry) = 1 /\ registry[1].pid = 101

\* C15: the registry file never holds two entries with the same pid.
C15_OneEntryPerPid ==
    \A i, j \in 1..Len(registry) : registry[i].pid = registry[j].pid => i = j

C15_Witness ==
    /\ last.op = "registerWrite"
    /\ HasPid(LastRead, pid[last.w])
    /\ Len(registry) = 2
    /\ \E v \in Windows : InOp(v, "touch")

\* C16 as claimed: every rewrite of the registry file, by register, touch or
\* unregister, leaves out every entry whose pid is not a running process.
C16_EveryWriterPurges ==
    [][registry' # registry
         => \A i \in 1..Len(registry') : IsRunning(registry'[i].pid)]_vars

\* C17: the write of a register call leaves the registry with an entry of
\* the process's (port, pid) and its discovery file holding the same port;
\* the write of stop, when no other write came between its read and its
\* write, leaves the registry without an entry of that (port, pid) and
\* removes the discovery file.
C17_ListenerLifecycle ==
    [][\A w \in Windows :
          /\ RegisterWrite(w)
             => /\ EntryOf(registry', port[w], pid[w])
                /\ pid[w] \in DOMAIN pidFiles' /\ pidFiles'[pid[w]] = port[w]
          /\ (StopWrite(w) /\ Get(fileIO[w]).windows = registry)
             => /\ ~EntryOf(registry', port[w], pid[w])
                /\ pid[w] \notin DOMAIN pidFiles']_vars

C17_Witness ==
    /\ last.op = "stopWrite" /\ last.w = 1
    /\ EntryOf(LastRead, 40001, 101)
    /\ ~HasPid(registry, 101) /\ HasPid(registry, 102)
    /\ 101 \notin DOMAIN pidFiles /\ 102 \in DOMAIN pidFiles

\* C19: a register call writes what it read plus itself: when its write lands
\* after the write of another running process whose entry it had not read,
\* the file afterwards lacks that process's entry.  (The lost registration
\* is the witness: both processes run and listen, one has no entry.)
C19_LostRegistration ==
    [][\A v, w \in Windows :
          (v # w /\ RegisterWrite(v) /\ alive[w]
             /\ ~EntryOf(Get(fileIO[v]).windows, port[w], pid[w]))
          => ~EntryOf(registry', port[w], pid[w])]_vars

C19_Witness ==
    /\ last.op = "registerWrite" /\ last.w = 2 /\ LastRead = << >>
    /\ \A w \in Windows : alive[w] /\ server[w] = "listening" /\ Idle(w)
    /\ 101 \in DOMAIN pidFiles /\ 102 \in DOMAIN pidFiles
    /\ ~EntryOf(registry, port[1], pid[1])
    /\ EntryOf(registry, port[2], pid[2])

\* C20 as claimed: a registry write by one process never removes or changes
\* the entry of another process that is running.
C20_NoForeignMutation ==
    [][\A w \in Windows :
          (alive[w] /\ alive'[w] /\ last'.w # w /\ registry' # registry)
          => \A i \in 1..Len(registry) :
                (registry[i].port = port[w] /\ registry[i].pid = pid[w])
                => \E j \in 1..Len(registry') : registry'[j] = registry[i]]_vars


\* C18: an entry appears in the registry file, or its lastActive changes,
\* only in a step in which the process of that entry registers or handles a
\* /submit; a /poll, a legacy initialize, tools/list or tools/call, a human
\* answer, a failing display and the restore at start leave the file as it is.
C18_TouchOnlyOnSubmit ==
    [][/\ \A i \in 1..Len(registry') :
             (\A j \in 1..Len(registry) : registry[j] # registry'[i])
             => /\ last'.op \in {"listen", "submit"}
                /\ registry'[i].pid = pid'[last'.w]
                /\ registry'[i].port = port'[last'.w]
       /\ last'.op \in {"poll", "legacy", "answer", "showResume", "activate",
                        "resolveView", "disposeView"}
          => registry' = registry]_vars

C18_Witness ==
    /\ last.op = "answer" /\ IsSome(last.reply)
    /\ Get(last.reply).result = Some([content |-> << TextPart(JStr(Plain("A"))) >>])
    /\ now = HOUR
    /\ everSubmitted[Broker] # {}
    /\ Len(registry) = 1 /\ registry[1].lastActive = 0


\* the snapshot has no entry under id k
NotStored(k) == \A i \in 1..Len(globalState) : globalState[i].id # k
NotStoredNext(k) == \A i \in 1..Len(globalState') : globalState'[i].id # k
\* the objects of the broker other than u keep their fields over the step
OthersKept(u) ==
    \A v \in (DOMAIN Heap \cap DOMAIN heap'[Broker]) \ {u} : heap'[Broker][v] = Heap[v]
ErrorReply(msg) == Reply("error", None, None, Some(msg))

\* C22: when the display of a request fails (the view is disposed when its
\* showMessage call posts the message, at the submit or when the call
\* resumes), the status of that request, when the map holds it, becomes error
\* with the message of the exception and a poll of its id answers
\* {status: error, error}; no other request changes, and the listener stays
\* as it was: the submit itself is still answered accepted.
C22_DisplayFailureIsError ==
    [][/\ \A k \in RequestIds :
             (Submit(Broker, k, ToolParams, MaxSubmits) /\ view[Broker] = "disposed")
             => /\ heap'[Broker][nextUid].status = "error"
                /\ heap'[Broker][nextUid].error = Some(DisposedMsg)
                /\ PollNext(k) = ErrorReply(DisposedMsg)
                /\ last'.reply = Accepted(k)
                /\ OthersKept(nextUid)
                /\ server' = server
       /\ \A call \in focusing[Broker] :
             (ShowResume(Broker, call) /\ view[Broker] = "disposed")
             => /\ (Held(Heap[call].id) /\ MapUid(Map, Heap[call].id) = call)
                     => /\ heap'[Broker][call].status = "error"
                        /\ heap'[Broker][call].error = Some(DisposedMsg)
                        /\ PollNext(Heap[call].id) = ErrorReply(DisposedMsg)
                /\ OthersKept(call)
                /\ server' = server]_vars

C22_Witness ==
    /\ last.op = "poll" /\ last.id = Some("r1")
    /\ last.reply = ErrorReply(DisposedMsg)
    /\ view[Broker] = "disposed"
    /\ Held(Some("r2")) /\ Entry(Some("r2")).status = "pending"
    /\ server[Broker] = "listening"

\* C23: a poll of an id held with status error returns {status: error} with
\* the message of that request and removes the entry from the map and from
\* the snapshot; the next poll of the id answers 'Request not found'.
C23_ErrorPollEvicts ==
    [][\A k \in RequestIds :
          (Poll(Broker, k) /\ Held(k) /\ Entry(k).status = "error")
          => /\ IsSome(Entry(k).error)
             /\ last'.reply = Reply("error", None, None, Entry(k).error)
             /\ ~MapHas(pendingRequests'[Broker], k)
             /\ NotStoredNext(k)
             /\ PollNext(k) = NotFound]_vars

C23_Witness ==
    /\ last.op = "poll" /\ last.reply = NotFound
    /\ last.id \in collected[Broker]
    /\ NotStored(last.id) /\ ~Held(last.id)
    /\ view[Broker] = "disposed"
    /\ deliveries = [u \in 1..(MaxSubmits + MaxBodies) |-> 0]

\* the poll of the last step returned a terminal result
TerminalReply(reply) == reply # Pending /\ reply # NotFound

\* C26: a poll answered pending or 'Request not found' leaves the map, the
\* request objects and the snapshot as they were; a poll answered with a
\* terminal result removes the entry of the polled id, and nothing else,
\* from the map and from the snapshot, and leaves every other entry as it was.
C26_PollFrame ==
    [][\A w \in Windows, k \in RequestIds :
          Poll(w, k)
          => /\ ~TerminalReply(last'.reply)
                  => UNCHANGED << pendingRequests, heap, globalState >>
             /\ TerminalReply(last'.reply)
                  => /\ pendingRequests'[w] = MapDelete(pendingRequests[w], k)
                     /\ \A u \in MapUids(pendingRequests'[w]) : heap'[w][u] = heap[w][u]
                     /\ \A v \in Windows \ {w} :
                           pendingRequests'[v] = pendingRequests[v] /\ heap'[v] = heap[v]
                     /\ globalState' = SelectSeq(globalState, LAMBDA r : r.id # k)]_vars

\* the stored copy of request u, in the snapshot of this state and of the next
StoredAs(u) == {r \in Stored : r.uid = u}
StoredAsNext(u) == {globalState'[i] : i \in {j \in 1..Len(globalState') : globalState'[j].uid = u}}

\* C24 as claimed: once a terminal status and its result or error have been
\* written for a request, a later settlement of the same request (re-driven
\* by a restore while it was in flight) does not overwrite them.
C24_SetOnce ==
    [][\A u \in 1..MaxSubmits :
          \A r \in StoredAs(u) :
             (r.status # "pending" /\ last'.op \in {"answer", "showResume"})
             => \A q \in StoredAsNext(u) : q = r]_vars

\* C27: an answer from the panel settles the showMessage call whose resolver
\* is installed, which is the call that installed it last, and no other: that
\* request (when the map holds it) becomes completed with the parsed answer,
\* every other request keeps its fields, and the
\* resolver is cleared, so that it is called once; the installed resolver
\* always belongs to a request that is still pending; an answer given while
\* no resolver is installed changes nothing.
C27_AnswerSettlesOne ==
    /\ [][\A text \in AnswerTexts, images \in AnswerImages :
             Answer(Broker, text, images)
             => IF pendingResolve[Broker] = None
                THEN UNCHANGED << pendingRequests, heap, globalState, pendingResolve,
                                  focusing >>
                ELSE LET u == Get(pendingResolve[Broker]) IN
                     /\ pendingResolve'[Broker] = None
                     /\ u \in MapUids(Map)
                          => /\ heap'[Broker][u].status = "completed"
                             /\ heap'[Broker][u].result
                                  = Some([content |->
                                            parseResponse(answerString(text, images))])
                     /\ OthersKept(u)
                     /\ focusing' = focusing]_vars
    /\ [][/\ \A k \in RequestIds :
               (Submit(Broker, k, ToolParams, MaxSubmits) /\ view[Broker] = "ready")
               => pendingResolve'[Broker] = Some(nextUid)
          /\ \A call \in focusing[Broker] :
               (ShowResume(Broker, call) /\ view[Broker] # "disposed")
               => pendingResolve'[Broker] = Some(call)]_vars
    /\ [](IsSome(pendingResolve[Broker])
            => Heap[Get(pendingResolve[Broker])].status = "pending")

C27_Witness ==
    /\ last.op = "answer" /\ last.id = Some("r2")
    /\ pendingResolve[Broker] = None /\ focusing[Broker] = {}
    /\ Held(Some("r1")) /\ Entry(Some("r1")).status = "pending"
    /\ Held(Some("r2")) /\ Entry(Some("r2")).status = "completed"

\* C29 as claimed: a submit whose requestId the map already holds leaves the
\* held request in place: the id still names the same request with the
\* fields it had, so that a poll of the id answers as it would have before.
C29_DuplicateKeepsHeld ==
    [][\A k \in RequestIds :
          (Submit(Broker, k, ToolParams, MaxSubmits) /\ Held(k))
          => /\ MapHas(pendingRequests'[Broker], k)
             /\ MapUid(pendingRequests'[Broker], k) = MapUid(Map, k)
             /\ heap'[Broker][MapUid(Map, k)] = Entry(k)
             /\ PollNext(k) = PollNow(k)]_vars

\* the snapshot holds request u as pending
StoredPending(gs, u) == \E i \in 1..Len(gs) : gs[i].uid = u /\ gs[i].status = "pending"

\* C30 as claimed: when a submit is answered accepted the snapshot holds the
\* new request as pending, and it keeps holding it as pending for as long
\* as the accepting process holds the request unanswered, so that a restart
\* inside the retention window finds it there and reinstates it.
C30_AcceptedIsDurable ==
    /\ [][\A w \in Windows, k \in RequestIds :
             (Submit(w, k, ToolParams, MaxSubmits) /\ last'.reply = Accepted(k))
             => StoredPending(globalState', nextUid)]_vars
    /\ [](\A w \in Windows :
            \A u \in MapUids(pendingRequests[w]) :
               (heap[w][u].via = "submit" /\ heap[w][u].status = "pending")
               => StoredPending(globalState, u))

\* C28 as claimed: with a human who keeps answering and a process that does
\* not exit, every id the map holds as pending eventually leaves that state
\* (its request completed or failed), also when another question was
\* displayed before it was answered.
C28_Progress ==
    \A k \in RequestIds :
        (Held(k) /\ Entry(k).status = "pending")
            ~> (~Held(k) \/ Entry(k).status # "pending")

\* C21 as claimed: whatever the condition of the registry file (missing,
\* unreadable, no JSON, JSON without a windows list, not writable), a valid
\* submit is answered accepted and leaves the pending entry in the map, the
\* registration at start and the unregistration at stop raise nothing, and
\* a registration that reads a damaged file writes the list it would write
\* for an empty registry.
C21_DegradedRegistry ==
    [][/\ \A k \in RequestIds :
             Submit(Broker, k, ToolParams, MaxBodies)
             => /\ last'.reply = Accepted(k) /\ last'.http = 200
                /\ MapHas(pendingRequests'[Broker], k)
                /\ heap'[Broker][MapUid(pendingRequests'[Broker], k)].status = "pending"
       /\ last'.op \in {"listen", "deactivate"} => last'.reply = NoReply
       /\ \A p \in PortsOf(Broker) :
             (Listen(Broker, p) /\ disk.file # "ok" /\ disk.writable)
             => /\ registry' = << [port |-> p, pid |-> pid[Broker], lastActive |-> now] >>
                /\ disk'.file = "ok"]_vars

\* the handler a POST to url is routed to
RouteOf(url) == IF url = "/submit" THEN "submit" ELSE IF url = "/poll" THEN "poll" ELSE "legacy"

\* C25 as claimed: OPTIONS is answered 200; a method other than POST and
\* OPTIONS 405; a POST whose body is no JSON document 400 with the
\* parse-error envelope; a POST whose body is a JSON document is routed by
\* its url to submit, poll or the legacy handler and what the handler
\* returns is sent with 200 (nothing is sent while the handler waits).
C25_TransportDispatch ==
    [][\A method \in Methods, url \in Urls :
          \A body \in BodiesOf(url) :
             HttpRequest(Broker, method, url, body, MaxSubmits)
             => /\ method = "OPTIONS" => last'.http = 200
                /\ method \notin {"POST", "OPTIONS"} => last'.http = 405
                /\ (method = "POST" /\ ~CanParse(body))
                     => (last'.http = 400 /\ last'.reply = ParseError)
                /\ (method = "POST" /\ CanParse(body))
                     => /\ last'.op = RouteOf(url)
                        /\ \/ last'.http = 200 /\ IsSome(last'.reply)
                           \/ last'.http = 0 /\ last'.reply = NoReply]_vars

\* the window whose process the step started
Restarted(w) == ~alive[w] /\ alive'[w]

\* C31 as claimed: createdAt is the time of the submit and no later step
\* changes it; a restart leaves out every stored request that is seven days
\* old or older (exactly seven days included); and a restart that happens
\* less than seven days after the submit of a request nobody has answered
\* reinstates it as pending.  (Nobody answers in SpecReload, and before the
\* clock reaches seven days every submit is younger than seven days.)
C31_ReinstatedUntilExpiry ==
    [][\A w \in Windows :
          /\ \A u \in DOMAIN heap'[w] :
                IF u \in DOMAIN heap[w] THEN heap'[w][u].createdAt = heap[w][u].createdAt
                ELSE IF Restarted(w)
                     THEN \E i \in 1..Len(globalState) :
                             /\ globalState[i].uid = u
                             /\ globalState[i].createdAt = heap'[w][u].createdAt
                     ELSE heap'[w][u].createdAt = now
          /\ Restarted(w)
             => /\ \A i \in 1..Len(globalState) :
                      now - globalState[i].createdAt >= SEVEN_DAYS
                      => globalState[i].uid \notin DOMAIN heap'[w]
                /\ now < SEVEN_DAYS
                   => \A k \in everSubmitted[w] :
                         /\ MapHas(pendingRequests'[w], k)
                         /\ heap'[w][MapUid(pendingRequests'[w], k)].status = "pending"]_vars

\* C32: for every answer string, the content list the legacy tools/call case
\* builds equals the content list parseResponse returns for the same string.
C32_SameContent ==
    [][last'.op = "toolsCall"
       => /\ last'.params = last.params
          /\ Get(last'.reply) = Get(last.reply)
          /\ Get(last'.reply) = parseResponse(Get(last'.params))]_vars

C32_Witness ==
    /\ last.op = "toolsCall"
    /\ IsEnvelope(Feedback)
    /\ Len(EnvelopeItems(Feedback)) = 2
    /\ Len(Content) = 2
    /\ Content[1].type = "text" /\ Content[2].type = "image"

\* the map of the broker with the objects it names
MapEntries == [i \in 1..Len(Map) |-> Heap[Map[i].uid]]
MapEntriesNext ==
    [i \in 1..Len(pendingRequests'[Broker]) |-> heap'[Broker][pendingRequests'[Broker][i].uid]]
\* the step resumes or answers the showMessage call of a tools/call
LegacyContinues ==
    \/ /\ last'.op = "answer"
       /\ IsSome(pendingResolve[Broker]) /\ IsLegacy(Heap[Get(pendingResolve[Broker])])
    \/ \E call \in focusing[Broker] : IsLegacy(Heap[call]) /\ ShowResume(Broker, call)

\* C33: a legacy request (initialize, tools/list, tools/call, an unknown
\* method), whatever its id, and the later steps of a tools/call (its
\* display and its answer) leave the map, the objects the map names and the
\* snapshot as they are; a tools/call that does not name panel_feedback and
\* an unknown method are answered with a JSON-RPC error and display nothing.
C33_LegacyFrame ==
    [][/\ \A id \in OverlapIds, body \in LegacyBodies :
             (last'.op = "legacy" /\ LegacyRequest(Broker, id, body.method, body.params, MaxSubmits))
             => /\ pendingRequests' = pendingRequests
                /\ MapEntriesNext = MapEntries
                /\ globalState' = globalState
                /\ (~CallsPanel(body.method, body.params)
                      /\ body.method \notin {"initialize", "tools/list"})
                   => /\ IsSome(last'.reply) /\ IsSome(Get(last'.reply).error)
                      /\ Get(last'.reply).id = id
                      /\ last'.calls = << >>
                      /\ current' = current
                      /\ pendingResolve' = pendingResolve /\ focusing' = focusing
       /\ LegacyContinues
          => /\ pendingRequests' = pendingRequests
             /\ MapEntriesNext = MapEntries
             /\ globalState' = globalState]_vars

C33_Witness ==
    /\ last.op = "legacy" /\ last.id = Some("r1") /\ last.params = PanelTool
    /\ Len(last.calls) = 1
    /\ Held(Some("r1")) /\ Entry(Some("r1")).status = "pending"
    /\ \E u \in DOMAIN Heap : IsLegacy(Heap[u]) /\ Heap[u].id = Some("r1")

\* the 'listening' callback of window w has run to its end
Bound(w) == alive[w] /\ server[w] = "listening" /\ ~InOp(w, "register")

\* C34: under every interleaving of the read and write steps of register,
\* touch and unregister, a window process that has bound its listener and
\* has not stopped has its discovery file, holding its port, in every
\* state; and a step of one process never writes or deletes the discovery
\* file of another process.
C34_DiscoveryFileHolds ==
    /\ [](\A w \in Windows :
            Bound(w) => (pid[w] \in DOMAIN pidFiles /\ pidFiles[pid[w]] = port[w]))
    /\ [][\A q \in DOMAIN pidFiles \cup DOMAIN pidFiles' :
             (q \notin DOMAIN pidFiles \/ q \notin DOMAIN pidFiles' \/ pidFiles'[q] # pidFiles[q])
             => (last'.w \in Windows /\ q \in {pid[last'.w], pid'[last'.w]})]_vars

C34_Witness ==
    /\ \A w \in Windows : Bound(w) /\ pidFiles[pid[w]] = port[w]
    /\ \E w \in Windows : ~HasPid(registry, pid[w])
    /\ \E w \in Windows : InOp(w, "unregister")

\* C35 as claimed: the discovery file of a process that is gone is removed
\* in the end, once another window process starts and registers: whenever
\* a file names a pid that is not running, later the file is gone (or a
\* running process has that pid again).
C35_NoLeftoverFile ==
    \A w \in Windows : \A q \in PidsOf(w) :
        (q \in DOMAIN pidFiles /\ ~IsRunning(q))
            ~> (q \notin DOMAIN pidFiles \/ IsRunning(q))

\* the process with pid q has run stop to its end: it is gone and so is its
\* discovery file, and the registry has no entry (p, q)
Unregistered(p, q) ==
    ~IsRunning(q) /\ q \notin DOMAIN pidFiles /\ ~EntryOf(registry, p, q)

\* C36 as claimed: once the stop of a process has written the registry
\* without its (port, pid) entry, no later write of another process brings
\* that entry back.
C36_UnregisteredForGood ==
    [][\A w \in Windows : \A q \in PidsOf(w), p \in FreePorts :
          (Unregistered(p, q) /\ ~alive'[w]) => ~EntryOf(registry', p, q)]_vars

\* C37: the write step of a touch leaves the file as it is when the list it
\* read has no entry of the caller's (port, pid); otherwise it writes the
\* list it read with nothing but the lastActive of the caller's entry
\* changed (to the time of the call).
C37_TouchFrame ==
    [][\A w \in Windows :
          SubmitWrite(w)
          => LET read == Get(fileIO[w]).windows IN
             IF ~EntryOf(read, port[w], pid[w]) THEN registry' = registry
             ELSE /\ Len(registry') = Len(read)
                  /\ \A i \in 1..Len(read) :
                        IF read[i].port = port[w] /\ read[i].pid = pid[w]
                        THEN registry'[i] = [read[i] EXCEPT !.lastActive = now]
                        ELSE registry'[i] = read[i]]_vars

C37_Witness ==
    /\ last.op = "submit" /\ last.w = 1
    /\ Bound(1) /\ ~HasPid(registry, pid[1])
    /\ \E i \in 1..Len(registry) : registry[i].pid = pid[2] /\ registry[i].lastActive = HOUR

\* C38 as claimed: a request answered with HTTP 405 or HTTP 400 leaves the
\* map, the snapshot, the registry file and what the panel shows as they
\* were, a POST to /submit with a JSON body that is no object included.
C38_ErrorChangesNothing ==
    [][\A method \in Methods, url \in Urls :
          \A body \in BodiesOf(url) :
             (last'.http \in {400, 405} /\ HttpRequest(Broker, method, url, body, MaxSubmits))
             => /\ pendingRequests' = pendingRequests
                /\ MapEntriesNext = MapEntries
                /\ globalState' = globalState
                /\ registry' = registry /\ disk' = disk
                /\ current' = current]_vars

\* C39 as claimed: a failed bind raises nothing, is not tried again, and
\* writes neither a registry entry nor a discovery file for the process; the
\* stop that follows removes no entry of another process and leaves the
\* process without an entry and without a discovery file.
C39_FailedBindLeavesNoTrace ==
    [][\A w \in Windows :
          /\ ListenFail(w)
             => /\ last'.reply = NoReply
                /\ registry' = registry /\ pidFiles' = pidFiles
          /\ server[w] = "failed" => server'[w] \in {"failed", "none"}
          /\ (StopWrite(w) /\ server[w] = "failed")
             => /\ \A v \in Windows \ {w} :
                      EntryOf(registry, port[v], pid[v]) => EntryOf(registry', port[v], pid[v])
                /\ ~HasPid(registry', pid[w])
                /\ pid[w] \notin DOMAIN pidFiles']_vars

====
